---- MODULE Spec2Model ----
(***************************************************************************)
(* Model of the engineering calculators of diego_eng_module:               *)
(*   - chi_coeff and composite_HE_ec4      (src/Composite_HE_EC4.py)       *)
(*   - continuous_beam and get_shear_moment_at_x                           *)
(*                                          (src/beams_analysis_test.py)   *)
(*                                                                         *)
(* Python floats are modelled by integers in fixed units, so that every    *)
(* comparison the properties make is an integer comparison:                *)
(*   slenderness            steps of 1/20                                  *)
(*   alpha                  steps of 1/100                                 *)
(*   phi                    steps of 1/4000 (exact on the grid)            *)
(*   chi                    steps of 1/10000 (rounded down)                *)
(*   b, h                   mm (multiples of 10), areas cm2, inertias cm4  *)
(*   strengths, axial loads 1/1380 of MPa resp. MPa*cm2 (exact)            *)
(*   stiffness EI           N*m2, critical load N_cr N, moments N*m        *)
(*   beam positions         steps of 1/(num_points - 1) m (exact)          *)
(* Axial loads and areas are exact; integer division (rounding down)       *)
(* enters only EI, N_cr, lambda_k, chi, h_n and the moments.               *)
(***************************************************************************)
EXTENDS Integers, Sequences, FiniteSets, TLC

VARIABLES
    chi_in,       \* arguments of the first chi_coeff call, or NoCall
    chi_out,      \* its outcome
    chi_next_in,  \* arguments of a second chi_coeff call, or NoCall
    chi_next_out, \* its outcome
    col_in,       \* arguments of the composite_HE_ec4 call, or NoCall
    col_out,      \* its outcome (the locals it computed, or the exception)
    beam_in,      \* arguments of the continuous_beam call, or NoCall
    x_offsets,    \* continuous_beam's first return value
    shear_data,   \* continuous_beam's second return value
    moment_data,  \* continuous_beam's third return value
    sm_in,        \* x_offset of the get_shear_moment_at_x call, or NoCall
    sm_out        \* its return value <<shear, moment>>

vars == <<chi_in, chi_out, chi_next_in, chi_next_out, col_in, col_out,
          beam_in, x_offsets, shear_data, moment_data, sm_in, sm_out>>

\* The value of a variable no call has set yet.
NoCall == [kind |-> "NoCall"]
\* Python's None is the empty sequence and a value v the sequence <<v>>.
None == <<>>
Some(v) == <<v>>

\* ------------------------------------------------------------------------
\* Bounds of the slenderness grid (steps of 1/20).
NegLambdaSteps == 30
MaxLambdaSteps == 62

Abs(x) == IF x < 0 THEN -x ELSE x

\* floor(sqrt(n)) for 0 <= n < 2^31, by bisection.
RECURSIVE SqrtSearch(_, _, _)
SqrtSearch(n, lo, hi) ==
    IF lo = hi THEN lo
    ELSE LET mid == (lo + hi + 1) \div 2
         IN  IF mid * mid <= n THEN SqrtSearch(n, mid, hi)
                               ELSE SqrtSearch(n, lo, mid - 1)

ISqrt(n) == SqrtSearch(n, 0, 46340)

\* ------------------------------------------------------------------------
\* chi_coeff

\* The buckling-curve table: alpha in 1/100, lambda_1 = 1.0.
lines ==
    [a |-> [alpha |-> 21, lambda_1 |-> 1],
     b |-> [alpha |-> 34, lambda_1 |-> 1],
     c |-> [alpha |-> 49, lambda_1 |-> 1],
     d |-> [alpha |-> 76, lambda_1 |-> 1]]

\* phi = 0.5 * (1 + alpha * (bar_lambda - 0.2) + bar_lambda**2), in 1/4000:
\* 4000*phi = 2000 + alpha100 * (l20 - 4) + 5 * l20^2.
\* (PhiSignSlip: the imperfection term with its sign reversed.)
PhiSignSlip(alpha, bar_lambda) ==
    2000 + alpha * (4 - bar_lambda) + 5 * bar_lambda * bar_lambda

Phi(alpha, bar_lambda) ==
    2000 + alpha * (bar_lambda - 4) + 5 * bar_lambda * bar_lambda

\* phi**2 - bar_lambda**2, in 1/4000^2 (4000 * l20/20 = 200 * l20).
\* (RadicandSwapped: the two squares in the other order.)
RadicandSwapped(phi, bar_lambda) ==
    (200 * bar_lambda) * (200 * bar_lambda) - phi * phi

Radicand(phi, bar_lambda) ==
    phi * phi - (200 * bar_lambda) * (200 * bar_lambda)

\* The value of 1 / (phi + radicand**0.5): a float (in 1/10000) when the
\* radicand is not negative; Python's ** gives a complex number when it is.
ChiValue(phi, radicand) ==
    IF radicand < 0
    THEN [kind |-> "complex", chi |-> 0]
    ELSE [kind |-> "float", chi |-> 40000000 \div (phi + ISqrt(radicand))]

\* (chi_coeff_default_curve: an unknown curve falls back to curve 'd'
\* instead of raising.)
chi_coeff_default_curve(lambda_value, line_type) ==
    LET key == IF line_type \in DOMAIN lines THEN line_type ELSE "d"
        bar_lambda == lambda_value \div lines[key].lambda_1
        phi == Phi(lines[key].alpha, bar_lambda)
    IN  ChiValue(phi, Radicand(phi, bar_lambda))

chi_coeff(lambda_value, line_type) ==
    IF line_type \notin DOMAIN lines
    THEN [kind |-> "ValueError", chi |-> 0]
    ELSE LET alpha == lines[line_type].alpha
             lambda_1 == lines[line_type].lambda_1
             bar_lambda == lambda_value \div lambda_1
             phi == Phi(alpha, bar_lambda)
         IN  ChiValue(phi, Radicand(phi, bar_lambda))

\* Inputs of the chi_coeff calls.
Slenderness == (0 - NegLambdaSteps) .. MaxLambdaSteps
CurveSymbols == {"a", "b", "c", "d", "e"}

\* No function has been called yet.  The functions share no state, so a
\* run calls one of them (chi_coeff twice, to compare two results).
Idle ==
    /\ chi_in = NoCall /\ chi_out = NoCall
    /\ chi_next_in = NoCall /\ chi_next_out = NoCall
    /\ col_in = NoCall /\ col_out = NoCall
    /\ beam_in = NoCall /\ x_offsets = <<>>
    /\ shear_data = <<>> /\ moment_data = <<>>
    /\ sm_in = NoCall /\ sm_out = NoCall

\* A first call chi_coeff(lambda_value, line_type).
ChiCall ==
    /\ Idle
    /\ \E l \in Slenderness, t \in CurveSymbols :
          /\ chi_in' = [lambda_value |-> l, line_type |-> t]
          /\ chi_out' = chi_coeff(l, t)
    /\ UNCHANGED <<chi_next_in, chi_next_out, col_in, col_out, beam_in,
                   x_offsets, shear_data, moment_data, sm_in, sm_out>>

\* A second call on the same curve with another slenderness.
ChiCallNext ==
    /\ chi_in # NoCall
    /\ chi_next_in = NoCall
    /\ \E l \in Slenderness :
          /\ chi_next_in' = [lambda_value |-> l, line_type |-> chi_in.line_type]
          /\ chi_next_out' = chi_coeff(l, chi_in.line_type)
    /\ UNCHANGED <<chi_in, chi_out, col_in, col_out, beam_in,
                   x_offsets, shear_data, moment_data, sm_in, sm_out>>

\* ------------------------------------------------------------------------
\* continuous_beam and get_shear_moment_at_x

\* Number of points evaluated along each member.
num_points == 50

\* A position of x metres in the model's steps of 1/(num_points - 1) m.
Pos(x) == (num_points - 1) * x

\* The finite-element solver is outside the repository: its shear and moment
\* at station k of member i under load w are stood for by values that differ
\* from sample to sample.
SolverShear(w, i, k) == w * (100 * i + k + 1)
SolverMoment(w, i, k) == (0 - w) * (1000 + 100 * i + k)

\* The samples of member i (1..3): np.linspace(0, member_length, num_points)
\* shifted by x_offsets[i], each paired with the solver's value there.
Solver(quantity, w, i, k) ==
    IF quantity = "Fy" THEN SolverShear(w, i, k) ELSE SolverMoment(w, i, k)

MemberSamples(quantity, w, i, offsets, member_length) ==
    [k \in 1..num_points |->
        <<(k - 1) * member_length + offsets[i], Solver(quantity, w, i, k - 1)>>]

continuous_beam(w, l1, l2, l3) ==
    LET offsets == <<Pos(0), Pos(l1), Pos(l1 + l2)>>
        lengths == <<l1, l2, l3>>
        shear  == MemberSamples("Fy", w, 1, offsets, lengths[1])
                  \o MemberSamples("Fy", w, 2, offsets, lengths[2])
                  \o MemberSamples("Fy", w, 3, offsets, lengths[3])
        moment == MemberSamples("Mz", w, 1, offsets, lengths[1])
                  \o MemberSamples("Mz", w, 2, offsets, lengths[2])
                  \o MemberSamples("Mz", w, 3, offsets, lengths[3])
    IN  [x_offsets |-> offsets, shear_data |-> shear, moment_data |-> moment]

\* One of the two loops, over the samples i..last in stored order: the value
\* of the first one whose position is >= x_offset (the break), or None.
\* (FirstAtOrAfterStrict: the comparison > in place of >=.)
RECURSIVE FirstAtOrAfterStrict(_, _, _, _)
FirstAtOrAfterStrict(data, i, last, x_offset) ==
    IF i > last THEN None
    ELSE IF data[i][1] > x_offset THEN Some(data[i][2])
    ELSE FirstAtOrAfterStrict(data, i + 1, last, x_offset)

RECURSIVE FirstAtOrAfter(_, _, _, _)
FirstAtOrAfter(data, i, last, x_offset) ==
    IF i > last THEN None
    ELSE IF data[i][1] >= x_offset THEN Some(data[i][2])
    ELSE FirstAtOrAfter(data, i + 1, last, x_offset)

\* The whole loop, from index i on.  It is evaluated a stretch of 32 samples
\* at a time, which keeps the evaluation shallow; the order of the scan and
\* its result are those of the single loop.
RECURSIVE ScanFrom(_, _, _)
ScanFrom(data, i, x_offset) ==
    IF i > Len(data) THEN None
    ELSE LET last == IF i + 31 < Len(data) THEN i + 31 ELSE Len(data)
             found == FirstAtOrAfter(data, i, last, x_offset)
         IN  IF found # None THEN found
             ELSE ScanFrom(data, last + 1, x_offset)

get_shear_moment_at_x(x_offset, shear, moment) ==
    [shear |-> ScanFrom(shear, 1, x_offset),
     moment |-> ScanFrom(moment, 1, x_offset)]

\* Inputs of the beam calls.
Loads == {-2, 3}
Spans == {1, 2}

ContinuousBeamCall ==
    /\ Idle
    /\ \E w \in Loads, l1 \in Spans, l2 \in Spans, l3 \in Spans :
          LET out == continuous_beam(w, l1, l2, l3)
          IN  /\ beam_in' = [w |-> w, l1 |-> l1, l2 |-> l2, l3 |-> l3]
              /\ x_offsets' = out.x_offsets
              /\ shear_data' = out.shear_data
              /\ moment_data' = out.moment_data
    /\ UNCHANGED <<chi_in, chi_out, chi_next_in, chi_next_out, col_in,
                   col_out, sm_in, sm_out>>

\* get_shear_moment_at_x on the lists continuous_beam returned, at a position
\* from just before the beam to just past its end.
GetShearMomentCall ==
    /\ beam_in # NoCall
    /\ sm_in = NoCall
    /\ \E x_offset \in -1 .. (shear_data[Len(shear_data)][1] + 1) :
          /\ sm_in' = [x_offset |-> x_offset]
          /\ sm_out' = get_shear_moment_at_x(x_offset, shear_data, moment_data)
    /\ UNCHANGED <<chi_in, chi_out, chi_next_in, chi_next_out, col_in,
                   col_out, beam_in, x_offsets, shear_data, moment_data>>

\* ------------------------------------------------------------------------
\* Properties of chi_coeff

ValidCurves == {"a", "b", "c", "d"}
ChiCalled == chi_out # NoCall
ChiNextCalled == chi_next_out # NoCall

\* C1: for every slenderness >= 0 and every curve in {a,b,c,d}, chi_coeff
\* returns a reduction factor chi with 0 < chi <= 1 (also at slenderness 0).
C1_ChiInUnitInterval ==
    (ChiCalled /\ chi_in.line_type \in ValidCurves /\ chi_in.lambda_value >= 0)
        => (chi_out.kind = "float" /\ 0 < chi_out.chi /\ chi_out.chi <= 10000)

\* C2: chi_coeff called with a curve symbol outside {a,b,c,d} ends in the
\* invalid-curve error (ValueError) and returns no reduction factor, for
\* every slenderness.
C2_InvalidCurveRaises ==
    /\ (ChiCalled /\ chi_in.line_type \notin ValidCurves)
          => chi_out.kind = "ValueError"
    /\ (ChiNextCalled /\ chi_next_in.line_type \notin ValidCurves)
          => chi_next_out.kind = "ValueError"

C2_Witness ==
    /\ ChiCalled /\ chi_in.line_type = "e" /\ chi_in.lambda_value > 0
    /\ chi_out.kind = "ValueError"
    /\ ChiNextCalled /\ chi_next_in.lambda_value < 0
    /\ chi_next_out.kind = "ValueError"

\* The square-root argument phi^2 - bar_lambda^2 of a call's inputs.
RadicandOf(in) ==
    LET bar_lambda == in.lambda_value \div lines[in.line_type].lambda_1
    IN  Radicand(Phi(lines[in.line_type].alpha, bar_lambda), bar_lambda)

\* C4: whenever chi_coeff is called with inputs for which phi^2 < bar_lambda^2
\* it ends in a domain error and returns no value (neither a float nor a
\* complex number reaches the caller).
C4_NegativeRadicandRaises ==
    (ChiCalled /\ chi_in.line_type \in ValidCurves /\ RadicandOf(chi_in) < 0)
        => chi_out.kind \notin {"float", "complex"}

\* C7: for a fixed curve in {a,b,c,d}, chi_coeff is non-increasing in the
\* slenderness over [0, 3]: s1 <= s2 implies chi(s2) <= chi(s1).
InMonotoneRange(l) == 0 <= l /\ l <= 60

C7_ChiNonIncreasing ==
    (/\ ChiCalled /\ ChiNextCalled
     /\ chi_in.line_type \in ValidCurves
     /\ InMonotoneRange(chi_in.lambda_value)
     /\ InMonotoneRange(chi_next_in.lambda_value)
     /\ chi_in.lambda_value <= chi_next_in.lambda_value)
        => (/\ chi_out.kind = "float" /\ chi_next_out.kind = "float"
            /\ chi_next_out.chi <= chi_out.chi)

C7_Witness ==
    /\ ChiCalled /\ ChiNextCalled
    /\ chi_in.line_type = "b"
    /\ chi_in.lambda_value = 2 /\ chi_next_in.lambda_value = 60
    /\ chi_out.kind = "float" /\ chi_next_out.kind = "float"
    /\ chi_next_out.chi < chi_out.chi

\* ------------------------------------------------------------------------
\* composite_HE_ec4

\* Design strengths, in 1/1380 MPa: gamma_M = 1.0, gamma_C = 1.5 and
\* gamma_B = 1.15, so fyd = fy, fcd = 0.85*fc/1.5 = 17*fc/30 and
\* fsd = fs/1.15 = 20*fs/23.
fyd(fy) == 1380 * fy
fcd(fc) == 782 * fc
fsd(fs) == 1200 * fs
\* A nominal strength in the same unit.
Nominal(f) == 1380 * f

\* b / 1000 and h / 1000: mm to the model's cm.
Cm(mm) == mm \div 10

\* Program constants of the section: web thickness (0.01 m, in cm) and the
\* plastic moduli of profile and reinforcement (in cm3).
t_w == 1
W_pla == 1283
W_pls == 40

\* 12 * I_c in cm4: I_c = (1/12) * b_c * h_c**3 - I_s - I_b.
I_c12(b, h, I_st, I_by) ==
    Cm(b) * Cm(h) * Cm(h) * Cm(h) - 12 * (I_st + I_by)

\* EI_eff in N*m2.  Ec_eff = E_cm / (1 + (1400/2200) * 2.5) = E_cm * 22/57,
\* so 0.6 * Ec_eff * I_c = 11 * Ec * (12*I_c) / 57 N*m2; the steel term is
\* 10 * Es * I_st and the reinforcement term 2000 * I_by.
EI_eff(b, h, I_st, I_by, Ec, Es) ==
    10 * Es * I_st + (11 * Ec * I_c12(b, h, I_st, I_by)) \div 57 + 2000 * I_by

\* The sign of the exact EI_eff (the division above rounds down).
EI_sign(b, h, I_st, I_by, Ec, Es) ==
    LET floor == EI_eff(b, h, I_st, I_by, Ec, Es)
        rest == (11 * Ec * I_c12(b, h, I_st, I_by)) % 57
    IN  IF floor > 0 \/ (floor = 0 /\ rest > 0) THEN 1
        ELSE IF floor = 0 THEN 0 ELSE -1

\* N_cr = EI_eff * pi**2 / L**2 in N, with pi**2 = 9.87; L # 0.
N_cr(EI, sign, L) == sign * (((Abs(EI) \div 100) * 987) \div (L * L))

\* A_c in cm2: (b_c * h_c) - (A_st + As_b).
A_c(b, h, A_st, As_b) == Cm(b) * Cm(h) - (A_st + As_b)

\* Plastic resistances, in 1/1380 MPa*cm2.
Npl_rk(fy, fs, fc, A_st, As_b, Ac) ==
    Nominal(fy) * A_st + fsd(fs) * As_b + Nominal(fc) * Ac

Npl_rd(fy, fs, fc, A_st, As_b, Ac) ==
    fyd(fy) * A_st + fsd(fs) * As_b + fcd(fc) * Ac

\* lambda_k = sqrt(Npl_rk / N_cr) in steps of 1/20, from the loads in kN;
\* the quotient is not negative and N_cr # 0.
lambda_k(Nplrk, Ncr) ==
    ISqrt((400 * (Abs(Nplrk) \div 13800)) \div (Abs(Ncr) \div 1000))

\* The divisor of h_n times 289*fc/2, in cm:
\* b_c - t_w + 2*t_w*(fyd/(0.85*fcd)), with fyd/(0.85*fcd) = 600*fy/(289*fc).
h_n_divisor(b, fy, fc) == (Cm(b) - t_w) * 289 * fc + 1200 * t_w * fy

\* h_n = A_c / (2 * divisor) in 1/100 cm.
h_n(Ac, b, fy, fc) == (Ac * 289 * fc * 50) \div h_n_divisor(b, fy, fc)

\* M_max_rd = W_pla*fyd + 0.5*W_plc*fcd + W_pls*fsd in N*m, with
\* W_plc = b_c*h_c**2/4 - W_pla - W_pls.
M_max_rd(b, h, fy, fc, fs) ==
    LET W_plc4 == Cm(b) * Cm(h) * Cm(h) - 4 * (W_pla + W_pls)
    IN  W_pla * fy + (17 * W_plc4 * fc) \div 240 + (20 * W_pls * fs) \div 23

\* M_b_rd = M_max_rd - (2*h_n**2*t_w/6*fsd) - (2*h_n**2*(b_c-t_w)/6)*fcd.
M_b_rd(Mmax, hn, b, fc, fs) ==
    LET hn2 == (hn * hn) \div 100
    IN  Mmax - (((hn2 * t_w) \div 69) * 20 * fs) \div 100
             - (hn2 * (Cm(b) - t_w) * 17 * fc) \div 9000

\* Axial loads of the vertices D and B, in 1/1380 MPa*cm2.
N_d_rd(Ac, fc) == (fcd(fc) * Ac) \div 2

\* (N_b_rd_nominal: vertex B from the nominal concrete strength.)
N_b_rd_nominal(Ac, fc) == Nominal(fc) * Ac

N_b_rd(Ac, fc) == fcd(fc) * Ac

\* The vertices of the interaction diagram, (moment, axial load), kept in the
\* order the dictionary is built in: A, B, D, C.  M_c_rd = M_b_rd.
PointOrder == <<"A", "B", "D", "C">>

Points(Nrd, Mb, Nb, Mmax, Nd) ==
    [A |-> <<0, Nrd>>, B |-> <<Mb, Nb>>, D |-> <<Mmax, Nd>>, C |-> <<Mb, 0>>]

\* x_vals (coordinate 1) and y_vals (coordinate 2) of the plot.
Column(points, coordinate) ==
    [i \in 1..Len(PointOrder) |-> points[PointOrder[i]][coordinate]]

Raised(exception, at) == [status |-> exception, line |-> at]

composite_HE_ec4(in) ==
    LET EI   == EI_eff(in.b, in.h, in.I_st, in.I_by, in.Ec, in.Es)
        sign == EI_sign(in.b, in.h, in.I_st, in.I_by, in.Ec, in.Es)
        Ncr  == N_cr(EI, sign, in.L)
        Ac   == A_c(in.b, in.h, in.A_st, in.As_b)
        Nrk  == Npl_rk(in.fy, in.fs, in.fc, in.A_st, in.As_b, Ac)
        Nrd  == Npl_rd(in.fy, in.fs, in.fc, in.A_st, in.As_b, Ac)
        lk   == lambda_k(Nrk, Ncr)
        chi  == chi_coeff(lk, "c")
        hn   == h_n(Ac, in.b, in.fy, in.fc)
        Mmax == M_max_rd(in.b, in.h, in.fy, in.fc, in.fs)
        Mb   == M_b_rd(Mmax, hn, in.b, in.fc, in.fs)
    IN  IF in.L = 0 THEN Raised("ZeroDivisionError", 79)
        ELSE IF sign = 0 THEN Raised("ZeroDivisionError", 89)
        ELSE IF (Nrk < 0 /\ sign > 0) \/ (Nrk > 0 /\ sign < 0)
             THEN Raised("ValueError", 89)
        ELSE IF chi.kind = "ValueError" THEN Raised("ValueError", 24)
        ELSE IF fcd(in.fc) = 0 \/ h_n_divisor(in.b, in.fy, in.fc) = 0
             THEN Raised("ZeroDivisionError", 94)
        ELSE [status |-> "done", line |-> 148,
              N_cr |-> Ncr, A_c |-> Ac, Npl_rk |-> Nrk, Npl_rd |-> Nrd,
              lambda_k |-> lk, chi |-> chi, h_n |-> hn,
              M_max_rd |-> Mmax, M_b_rd |-> Mb,
              points |-> Points(Nrd, Mb, N_b_rd(Ac, in.fc),
                                Mmax, N_d_rd(Ac, in.fc)),
              x_vals |-> Column(Points(Nrd, Mb, N_b_rd(Ac, in.fc),
                                       Mmax, N_d_rd(Ac, in.fc)), 1),
              y_vals |-> Column(Points(Nrd, Mb, N_b_rd(Ac, in.fc),
                                       Mmax, N_d_rd(Ac, in.fc)), 2)]

\* Inputs of the composite_HE_ec4 call: a profile is <<A_st, I_st>> and a
\* reinforcement layout <<As_b, I_by>>.
Lengths == {-3, 0, 3, 6}
Widths == {0, 100, 300}
Heights == {0, 100, 300}
Profiles == {<<0, 0>>, <<150, 19340>>}
Reinforcements == {<<0, 0>>, <<12, 1000>>}
SteelStrengths == {-355, 0, 235, 355}
ConcreteStrengths == {0, 30}
RebarStrengths == {0, 500}
ConcreteModuli == {34}
SteelModuli == {200, 210}

CompositeCall ==
    /\ Idle
    /\ \E L \in Lengths, b \in Widths, h \in Heights, p \in Profiles,
          r \in Reinforcements, fy \in SteelStrengths,
          fc \in ConcreteStrengths, fs \in RebarStrengths,
          Ec \in ConcreteModuli, Es \in SteelModuli :
          LET in == [L |-> L, b |-> b, h |-> h, A_st |-> p[1], I_st |-> p[2],
                     As_b |-> r[1], I_by |-> r[2], fy |-> fy, fc |-> fc,
                     fs |-> fs, Ec |-> Ec, Es |-> Es]
          IN  /\ col_in' = in
              /\ col_out' = composite_HE_ec4(in)
    /\ UNCHANGED <<chi_in, chi_out, chi_next_in, chi_next_out, beam_in,
                   x_offsets, shear_data, moment_data, sm_in, sm_out>>

\* ------------------------------------------------------------------------
\* Properties of composite_HE_ec4

ColCalled == col_out # NoCall
ColDone == ColCalled /\ col_out.status = "done"

\* An input outside its physical domain: a length, dimension or strength
\* that is not positive.
OutsideDomain(in) ==
    \/ in.L <= 0 \/ in.b <= 0 \/ in.h <= 0
    \/ in.fy <= 0 \/ in.fc <= 0 \/ in.fs <= 0

\* C3: when A_st + As_b exceeds the gross area b*h, composite_HE_ec4 ends in
\* a negative-concrete-area error and never goes on to compute plastic
\* resistances or vertices from a negative A_c.  (Stated for inputs that
\* are otherwise inside their domain, where no other error is due.)
C3_NegativeAreaRejected ==
    (ColCalled /\ ~OutsideDomain(col_in)
     /\ col_in.A_st + col_in.As_b > Cm(col_in.b) * Cm(col_in.h))
        => (/\ col_out.status = "NegativeConcreteAreaError"
            /\ col_out.status # "done")

\* C5: Npl_rk is the area-weighted sum with the nominal strength of all three
\* zones, fy*A_st + fs*As_b + fc*A_c, and Npl_rd the sum with the factored
\* strengths fyd, fsd, fcd.  (Stated for inputs inside their domain.)
C5_CharacteristicUsesNominal ==
    (ColDone /\ ~OutsideDomain(col_in)) =>
        /\ col_out.Npl_rk = Nominal(col_in.fy) * col_in.A_st
                          + Nominal(col_in.fs) * col_in.As_b
                          + Nominal(col_in.fc) * col_out.A_c
        /\ col_out.Npl_rd = fyd(col_in.fy) * col_in.A_st
                          + fsd(col_in.fs) * col_in.As_b
                          + fcd(col_in.fc) * col_out.A_c

\* C6: for positive concrete area and positive strengths, the axial loads of
\* the vertices in the order A, B, D, C do not increase:
\* N_A (= Npl_rd) >= N_B >= N_D >= N_C = 0.
PositiveSection ==
    /\ col_out.A_c > 0
    /\ col_in.fy > 0 /\ col_in.fc > 0 /\ col_in.fs > 0

C6_AxialLoadNonIncreasing ==
    (ColDone /\ PositiveSection) =>
        /\ col_out.y_vals[1] = col_out.Npl_rd
        /\ \A i \in 1..3 : col_out.y_vals[i] >= col_out.y_vals[i + 1]
        /\ col_out.y_vals[4] = 0

C6_Witness ==
    /\ ColDone /\ PositiveSection
    /\ col_in.L > 0 /\ col_in.A_st > 0 /\ col_in.As_b > 0
    /\ col_out.y_vals[1] > col_out.y_vals[2]
    /\ col_out.y_vals[2] > col_out.y_vals[3]
    /\ col_out.y_vals[3] > col_out.y_vals[4]

\* C8: composite_HE_ec4 called with an input outside its physical domain
\* (L <= 0, fy, fc or fs <= 0, b or h <= 0) ends in an error at the point of
\* detection and never completes with results.  (Any exception counts as
\* the error here; the statement fails only when the call completes.)
C8_InvalidInputRejected ==
    (ColCalled /\ OutsideDomain(col_in)) => col_out.status # "done"

\* C9: for each built-in curve and every slenderness >= 0 the square-root
\* argument phi^2 - bar_lambda^2 is not negative, so chi_coeff returns a
\* float; composite_HE_ec4 passes only lambda_k >= 0 with curve 'c' and so
\* never meets the domain violation.
NonNegativeRadicand(in, out) ==
    (in.line_type \in ValidCurves /\ in.lambda_value >= 0)
        => (RadicandOf(in) >= 0 /\ out.kind = "float")

C9_RadicandNonNegative ==
    /\ ChiCalled => NonNegativeRadicand(chi_in, chi_out)
    /\ ChiNextCalled => NonNegativeRadicand(chi_next_in, chi_next_out)
    /\ ColCalled => ~(col_out.status = "ValueError" /\ col_out.line = 24)
    /\ ColDone => (col_out.lambda_k >= 0 /\ col_out.chi.kind = "float")

C9_Witness ==
    /\ ChiCalled /\ chi_in.line_type = "d" /\ chi_in.lambda_value = 20
    /\ chi_out.kind = "float" /\ RadicandOf(chi_in) > 0
    /\ ChiNextCalled /\ chi_next_in.lambda_value = 0
    /\ chi_next_out.kind = "float"

\* ------------------------------------------------------------------------
\* Properties of get_shear_moment_at_x

SmCalled == sm_out # NoCall

\* The indices of the samples at or after position x.
AtOrAfter(data, x) == {i \in 1..Len(data) : data[i][1] >= x}

\* The value of the sample with the least such index, or None.
EarliestAtOrAfter(data, x) ==
    IF AtOrAfter(data, x) = {} THEN None
    ELSE Some(data[CHOOSE i \in AtOrAfter(data, x) :
                      \A j \in AtOrAfter(data, x) : i <= j][2])

\* C10: get_shear_moment_at_x returns, for each list, the value of the first
\* sample in stored order with x >= x_offset (at a span boundary, where the
\* position occurs twice, that of the left-hand member), None when there is
\* no such sample, and leaves shear_data and moment_data as continuous_beam
\* returned them.
C10_FirstSampleAtOrAfter ==
    SmCalled =>
        /\ sm_out.shear = EarliestAtOrAfter(shear_data, sm_in.x_offset)
        /\ sm_out.moment = EarliestAtOrAfter(moment_data, sm_in.x_offset)
        /\ \A i \in 1..(Len(shear_data) - 1) :
              (/\ shear_data[i][1] = sm_in.x_offset
               /\ shear_data[i + 1][1] = sm_in.x_offset)
                  => (/\ sm_out.shear = Some(shear_data[i][2])
                      /\ sm_out.moment = Some(moment_data[i][2]))
        /\ shear_data =
              continuous_beam(beam_in.w, beam_in.l1, beam_in.l2,
                              beam_in.l3).shear_data
        /\ moment_data =
              continuous_beam(beam_in.w, beam_in.l1, beam_in.l2,
                              beam_in.l3).moment_data

\* A query at the boundary of the first two spans: the left-hand member's
\* last sample is returned, not the right-hand member's first.
C10_Witness ==
    /\ SmCalled
    /\ sm_in.x_offset = x_offsets[2]
    /\ shear_data[num_points][1] = sm_in.x_offset
    /\ shear_data[num_points + 1][1] = sm_in.x_offset
    /\ sm_out.shear = Some(shear_data[num_points][2])
    /\ sm_out.shear # Some(shear_data[num_points + 1][2])
    /\ sm_out.moment = Some(moment_data[num_points][2])

Init == Idle

Next ==
    \/ ChiCall
    \/ ChiCallNext
    \/ CompositeCall
    \/ ContinuousBeamCall
    \/ GetShearMomentCall

Spec == Init /\ [][Next]_vars

====
